---- MODULE Spec2Model ----
\* Verification model of ujik500/teiko-technical: the SQLite loading and overview
\* steps, the responder / non-responder partitioning, the per-population tests and
\* the Benjamini-Hochberg style correction of teiko_technical.py and dashboard.py.
\*
\* Number representations
\*   percentage  an integer number of 1e-4 percent (33.3333 is 333333), NULL for SQL NULL
\*   p-value     a double is 2*g + e: g counts 1/6000 (0.01 is g = 60) and e = 1 marks
\*               the doubles lying strictly above the double nearest to g/6000 and
\*               below the next grid point; NaN is a separate value
\*   mean        a quotient [num, den] in lowest terms, in units of 1e-4 percent;
\*               0 / 0 is the mean that is not a number
\*   CSV field   the text of the field; a numeral is the number it denotes
EXTENDS Integers, Sequences, FiniteSets, TLC

VARIABLES
    csv_file,            \* the lines of cell-count.csv, each a tuple of its fields
    sample_data,         \* the sample table: [exists, rows]
    overview_table,      \* the overview table: [exists, rows]
    data_by_population,  \* teiko_technical: grouped percentages, cell type -> [yes, no]
    counts_reported,     \* [yes, no] sample counts printed by plot_cell_frequencies
    results,             \* rows of the table printed by analyze_frequencies_*
    dashboard,           \* what the last run of dashboard.py computed and showed
    imported,            \* teiko_technical is in sys.modules of the dashboard process
    data_loaded,         \* st.session_state.data_loaded
    oracle,              \* p-value scipy computes for a cell type's non-degenerate groups
    requests,            \* callers running the pipeline on the database, each with its
                         \* own input file, filter and printed reports
    filter_result,       \* what the last row filter query was given and returned
    sidebar,             \* the selections of the dashboard's sidebar and the data they filter
    session_loads,       \* calls of load_csv_to_sqlite made by the script runs of the session
    last_call,           \* the operation that ran last and its arguments
    error                \* exception that left the last operation, "none" if it returned

vars == <<csv_file, sample_data, overview_table, data_by_population, counts_reported,
          results, dashboard, imported, data_loaded, oracle, requests, filter_result,
          sidebar, session_loads, last_call, error>>

-----------------------------------------------------------------------------
\* Bounds of the model

MaxRows == 2
MaxOverviewRows == 3
MaxFilterRows == 2
MaxConcurrentRows == 1
MaxRepeatRows == 2
MaxRuns == 2
MaxSidebarRows == 2
MaxSessionLoads == 3
MaxLoadRows == 1

-----------------------------------------------------------------------------
\* Values

NULL == -1
NaN == -1

cell_types == <<"b_cell", "cd8_t_cell", "cd4_t_cell", "nk_cell", "monocyte">>

CellTypeSet == {cell_types[i] : i \in 1..Len(cell_types)}

Samples == {"s1", "s2"}
Conditions == {"melanoma", "carcinoma"}
Treatments == {"miraclib", "phauximab"}
SampleTypes == {"PBMC", "WB"}
Responses == {"yes", "no", ""}

\* the five counts of a row, in the order of cell_types; the last two vectors are
\* the ones of test_percentage_calculation and test_zero_cell_counts
ReferenceCounts == <<100, 200, 300, 150, 250>>

CountVectors ==
    {<<0, 0, 0, 0, 0>>, <<1, 1, 1, 0, 0>>, <<1, 1, 1, 1, 3>>, <<1, 1, 1, 1, 2>>,
     ReferenceCounts, <<0, 0, 0, 0, 100>>}

ReferenceMetadata ==
    [condition |-> "melanoma", treatment |-> "miraclib", sample_type |-> "PBMC"]

\* the reference metadata and the ones that differ from it in one attribute
Metadata ==
    {m \in [condition : Conditions, treatment : Treatments, sample_type : SampleTypes] :
        Cardinality({a \in {"condition", "treatment", "sample_type"} :
                        m[a] # ReferenceMetadata[a]}) <= 1}

\* a row of the sample table: the ten metadata columns and, as counts, the five
\* count columns in the order of cell_types; the rows below vary the metadata and
\* the response on one count vector, or the counts on the reference metadata
RowsByMetadata ==
    {[project |-> "prj1", subject |-> "sbj1", condition |-> m.condition, age |-> 50,
      sex |-> "M", treatment |-> m.treatment, response |-> r, sample |-> s,
      sample_type |-> m.sample_type, time_from_treatment_start |-> 0,
      counts |-> ReferenceCounts] :
        s \in Samples, m \in Metadata, r \in Responses}

RowsByCounts ==
    [project : {"prj1"}, subject : {"sbj1"}, condition : {"melanoma"}, age : {50},
     sex : {"M"}, treatment : {"miraclib"}, response : {"yes"}, sample : Samples,
     sample_type : {"PBMC"}, time_from_treatment_start : {0}, counts : CountVectors]

Rows == RowsByMetadata \cup RowsByCounts

\* the header line of cell-count.csv
Header ==
    <<"project", "subject", "condition", "age", "sex", "treatment", "response",
      "sample", "sample_type", "time_from_treatment_start", "b_cell", "cd8_t_cell",
      "cd4_t_cell", "nk_cell", "monocyte">>

\* the line of the file that describes a sample
CsvLine(row) ==
    <<row.project, row.subject, row.condition, row.age, row.sex, row.treatment,
      row.response, row.sample, row.sample_type, row.time_from_treatment_start>>
    \o row.counts

CsvFile(rows) == <<Header>> \o [k \in 1..Len(rows) |-> CsvLine(rows[k])]

NoTable == [exists |-> FALSE, rows |-> <<>>]

Table(rows) == [exists |-> TRUE, rows |-> rows]

EmptyGroups == [ct \in CellTypeSet |-> [yes |-> <<>>, no |-> <<>>]]

NoCall ==
    [op |-> "none", condition |-> "", treatment |-> "", sample_type |-> "",
     request |-> ""]

NoDashboard ==
    [analysis |-> "none", analysis_samples |-> {}, data_by_population |-> EmptyGroups,
     results_df |-> <<>>, significant_cells |-> <<>>]

Call(op, condition, treatment, sample_type) ==
    [op |-> op, condition |-> condition, treatment |-> treatment,
     sample_type |-> sample_type, request |-> ""]

\* the callers of the pipeline
RequestIds == {"r1", "r2"}

\* a caller that has asked for nothing
NoRequest ==
    [pc |-> "idle", file |-> CsvFile(<<>>), treatment |-> "", condition |-> "",
     runs |-> 0, reports |-> <<>>]

NoRequests == [r \in RequestIds |-> NoRequest]

NoFilterResult == [filters |-> {}, rows |-> <<>>, count |-> 0]

-----------------------------------------------------------------------------
\* Sequence helpers

RECURSIVE SumSeq(_)
SumSeq(s) == IF s = <<>> THEN 0 ELSE Head(s) + SumSeq(Tail(s))

RECURSIVE Concat(_)
Concat(ss) == IF ss = <<>> THEN <<>> ELSE Head(ss) \o Concat(Tail(ss))

-----------------------------------------------------------------------------
\* load_csv_to_sqlite: DROP TABLE IF EXISTS, CREATE TABLE, one INSERT per data row

\* mutant: the column list names treatment before condition
ColumnsTreatmentFirst ==
    <<"project", "subject", "treatment", "age", "sex", "condition", "response",
      "sample", "sample_type", "time_from_treatment_start", "b_cell", "cd8_t_cell",
      "cd4_t_cell", "nk_cell", "monocyte">>

\* the columns named by the INSERT, in the order of its placeholders
columns ==
    <<"project", "subject", "condition", "age", "sex", "treatment", "response",
      "sample", "sample_type", "time_from_treatment_start", "b_cell", "cd8_t_cell",
      "cd4_t_cell", "nk_cell", "monocyte">>

\* the value the INSERT binds to a column: the field at the column's placeholder
Bound(line, column) == line[CHOOSE i \in 1..Len(columns) : columns[i] = column]

\* the row one INSERT stores; a numeral of the file is the number it denotes
\* (the INTEGER columns convert it)
InsertRow(line) ==
    [project |-> Bound(line, "project"), subject |-> Bound(line, "subject"),
     condition |-> Bound(line, "condition"), age |-> Bound(line, "age"),
     sex |-> Bound(line, "sex"), treatment |-> Bound(line, "treatment"),
     response |-> Bound(line, "response"), sample |-> Bound(line, "sample"),
     sample_type |-> Bound(line, "sample_type"),
     time_from_treatment_start |-> Bound(line, "time_from_treatment_start"),
     counts |-> [i \in 1..Len(cell_types) |-> Bound(line, cell_types[i])]]

\* mutant: the table is kept (no DROP TABLE) and the rows are added to it
LoadCsvAppending(file) ==
    [exists |-> TRUE,
     rows |-> sample_data.rows \o [k \in 1..(Len(file) - 1) |-> InsertRow(file[k + 1])]]

\* next(reader) takes the first line away, executemany inserts the others
LoadCsv(file) == Table([k \in 1..(Len(file) - 1) |-> InsertRow(file[k + 1])])

\* the table after a call and the exception the call leaves with. DROP TABLE and
\* CREATE TABLE take effect as they are executed; next(reader) on a file without
\* lines raises StopIteration; executemany raises ProgrammingError at the first
\* line that has not one field for each placeholder, the function returns without
\* commit, and the rows inserted before that line are rolled back
LoadOutcome(file) ==
    IF Len(file) = 0
    THEN [error |-> "StopIteration", table |-> Table(<<>>)]
    ELSE IF \E k \in 2..Len(file) : Len(file[k]) # Len(columns)
         THEN [error |-> "ProgrammingError", table |-> Table(<<>>)]
         ELSE [error |-> "none", table |-> LoadCsv(file)]

load_csv_to_sqlite ==
    /\ sample_data' = LoadOutcome(csv_file).table
    /\ last_call' = Call("load_csv_to_sqlite", "", "", "")
    /\ error' = LoadOutcome(csv_file).error
    /\ UNCHANGED <<csv_file, overview_table, data_by_population, counts_reported,
                   results, dashboard, imported, data_loaded, oracle, requests,
                   filter_result, sidebar, session_loads>>

-----------------------------------------------------------------------------
\* overview: DROP TABLE IF EXISTS, CREATE TABLE AS ... five SELECTs UNION ALL

\* mutant: the sum forgets the last population
TotalCountWithoutMonocyte(row) == SumSeq(SubSeq(row.counts, 1, Len(row.counts) - 1))

total_count(row) == SumSeq(row.counts)

\* mutant: ROUND(..., 2)
PercentageTwoPlaces(count, total) ==
    IF total = 0 THEN NULL ELSE 100 * ((20000 * count + total) \div (2 * total))

\* ROUND(100.0 * count / total_count, 4); SQLite evaluates x / 0 to NULL
Percentage(count, total) ==
    IF total = 0 THEN NULL ELSE (2000000 * count + total) \div (2 * total)

OverviewRow(row, i) ==
    [sample |-> row.sample,
     total_count |-> total_count(row),
     population |-> cell_types[i],
     count |-> row.counts[i],
     percentage |-> Percentage(row.counts[i], total_count(row))]

\* mutant: a SELECT that leaves out the samples without cells of population i
OverviewSelectNonZero(rows, i) ==
    LET HasCells(row) == row.counts[i] > 0
        kept == SelectSeq(rows, HasCells)
    IN [k \in 1..Len(kept) |-> OverviewRow(kept[k], i)]

\* one SELECT of the UNION ALL: every row of the sample table for population i
OverviewSelect(rows, i) == [k \in 1..Len(rows) |-> OverviewRow(rows[k], i)]

OverviewRows(rows) ==
    Concat([i \in 1..Len(cell_types) |-> OverviewSelect(rows, i)])

\* mutant: the old overview table is kept (no DROP TABLE) and the rows are added
OverviewAppending(sd) ==
    IF sd.exists
    THEN [error |-> "none",
          table |-> [exists |-> TRUE,
                     rows |-> overview_table.rows \o OverviewRows(sd.rows)]]
    ELSE [error |-> "OperationalError", table |-> overview_table]

\* the overview table and the error overview() leaves with; the old table is
\* dropped before the SELECT finds the sample table missing
Overview(sd) ==
    IF sd.exists
    THEN [error |-> "none", table |-> Table(OverviewRows(sd.rows))]
    ELSE [error |-> "OperationalError", table |-> NoTable]

overview ==
    /\ overview_table' = Overview(sample_data).table
    /\ error' = Overview(sample_data).error
    /\ last_call' = Call("overview", "", "", "")
    /\ UNCHANGED <<csv_file, sample_data, data_by_population, counts_reported,
                   results, dashboard, imported, data_loaded, oracle, requests,
                   filter_result, sidebar, session_loads>>

-----------------------------------------------------------------------------
\* The join of the analysis queries:
\*   FROM overview ov JOIN sample_data sd ON ov.sample = sd.sample WHERE <filter on sd>
\* as a nested loop over ov and, inside it, over sd

JoinedRow(ov, sd) ==
    [population |-> ov.population, percentage |-> ov.percentage,
     response |-> sd.response, sample |-> sd.sample]

JoinOne(ov, sd_rows, condition, treatment, sample_type) ==
    LET Matches(sd) ==
            /\ ov.sample = sd.sample
            /\ sd.sample_type = sample_type
            /\ sd.condition = condition
            /\ sd.treatment = treatment
        matching == SelectSeq(sd_rows, Matches)
    IN [k \in 1..Len(matching) |-> JoinedRow(ov, matching[k])]

AnalysisQuery(ov_rows, sd_rows, condition, treatment, sample_type) ==
    Concat([k \in 1..Len(ov_rows) |->
                JoinOne(ov_rows[k], sd_rows, condition, treatment, sample_type)])

\* the percentages of the query rows of one population and one response, in row order
GroupOf(query_rows, population, response) ==
    LET InGroup(r) == r.population = population /\ r.response = response
        kept == SelectSeq(query_rows, InGroup)
    IN [k \in 1..Len(kept) |-> kept[k].percentage]

HasNull(groups) ==
    \E ct \in CellTypeSet :
        \/ \E k \in 1..Len(groups[ct].yes) : groups[ct].yes[k] = NULL
        \/ \E k \in 1..Len(groups[ct].no) : groups[ct].no[k] = NULL

-----------------------------------------------------------------------------
\* plot_cell_frequencies: query, grouping loop, sample counts (the drawing of the
\* box plots changes no state; matplotlib given a None percentage may raise)

\* data_by_population[population][response].append(percentage) finds no list for
\* a response other than 'yes' and 'no'
PlotRaisesKeyError(query_rows) ==
    \E k \in 1..Len(query_rows) :
        /\ query_rows[k].population \in CellTypeSet
        /\ query_rows[k].response \notin {"yes", "no"}

PlotGroups(query_rows) ==
    [ct \in CellTypeSet |->
        [yes |-> GroupOf(query_rows, ct, "yes"), no |-> GroupOf(query_rows, ct, "no")]]

\* sum(len(data_by_population[ct][response]) for ct in cell_types) // len(cell_types)
SampleCount(groups, response) ==
    SumSeq([i \in 1..Len(cell_types) |->
                IF response = "yes" THEN Len(groups[cell_types[i]].yes)
                ELSE Len(groups[cell_types[i]].no)]) \div Len(cell_types)

PlotReturn(groups) ==
    [error |-> "none", groups |-> groups,
     counts |-> [yes |-> SampleCount(groups, "yes"), no |-> SampleCount(groups, "no")]]

PlotRaise(exception) ==
    [error |-> exception, groups |-> EmptyGroups, counts |-> [yes |-> 0, no |-> 0]]

\* the ways a call of plot_cell_frequencies can end
PlotOutcomes(sd, ov, treatment, condition) ==
    IF ~(sd.exists /\ ov.exists) THEN {PlotRaise("OperationalError")}
    ELSE LET query_rows == AnalysisQuery(ov.rows, sd.rows, condition, treatment, "PBMC")
             groups == PlotGroups(query_rows)
         IN IF PlotRaisesKeyError(query_rows) THEN {PlotRaise("KeyError")}
            ELSE {PlotReturn(groups)}
                 \cup (IF HasNull(groups) THEN {PlotRaise("TypeError")} ELSE {})

plot_cell_frequencies(treatment, condition) ==
    /\ last_call' = Call("plot_cell_frequencies", condition, treatment, "PBMC")
    /\ \E out \in PlotOutcomes(sample_data, overview_table, treatment, condition) :
        /\ error' = out.error
        /\ IF out.error = "none"
           THEN /\ data_by_population' = out.groups
                /\ counts_reported' = out.counts
           ELSE UNCHANGED <<data_by_population, counts_reported>>
    /\ UNCHANGED <<csv_file, sample_data, overview_table, results, dashboard, imported,
                   data_loaded, oracle, requests,
                   filter_result, sidebar, session_loads>>

-----------------------------------------------------------------------------
\* Doubles of the statistical step

\* the double nearest to g / 6000
Double(g) == 2 * g

\* a < b on doubles: False as soon as one side is NaN
ISLT(a, b) == a # NaN /\ b # NaN /\ a < b

\* (rank + 1) / len(cell_types) * 0.05 with rank the 0-based position, as IEEE
\* doubles: for n = 5 the products are 0.010000000000000002, 0.020000000000000004,
\* 0.03, 0.04000000000000001, 0.05, so ranks 1, 2 and 4 lie above 0.01, 0.02, 0.04
RoundsAbove(r, n) == <<r, n>> \in {<<3, 4>>, <<1, 5>>, <<2, 5>>, <<4, 5>>}

BHThreshold(rank, n) ==
    Double((300 * (rank + 1)) \div n) + (IF RoundsAbove(rank + 1, n) THEN 1 ELSE 0)

-----------------------------------------------------------------------------
\* sorted(..., key = p-value): CPython's list sort on fewer than 64 elements is
\* count_run on the prefix followed by a binary insertion sort, comparing keys with <

RECURSIVE RunEnd(_, _, _)
RunEnd(s, k, descending) ==
    IF k = Len(s) THEN k
    ELSE IF ISLT(s[k + 1].p_value, s[k].p_value) = descending
         THEN RunEnd(s, k + 1, descending)
         ELSE k

Reverse(s) == [k \in 1..Len(s) |-> s[Len(s) + 1 - k]]

\* the list with its initial run made ascending, and the length of that run
CountRun(s) ==
    IF Len(s) < 2 THEN [n |-> Len(s), list |-> s]
    ELSE LET descending == ISLT(s[2].p_value, s[1].p_value)
             n == RunEnd(s, 2, descending)
         IN [n |-> n,
             list |-> IF descending
                      THEN Reverse(SubSeq(s, 1, n)) \o SubSeq(s, n + 1, Len(s))
                      ELSE s]

RECURSIVE BinarySearch(_, _, _, _)
BinarySearch(s, pivot, l, r) ==
    IF l >= r THEN l
    ELSE LET p == l + ((r - l) \div 2)
         IN IF ISLT(pivot.p_value, s[p].p_value)
            THEN BinarySearch(s, pivot, l, p)
            ELSE BinarySearch(s, pivot, p + 1, r)

RECURSIVE BinarySort(_, _)
BinarySort(s, start) ==
    IF start > Len(s) THEN s
    ELSE LET pivot == s[start]
             l == BinarySearch(s, pivot, 1, start)
         IN BinarySort(SubSeq(s, 1, l - 1) \o <<pivot>> \o SubSeq(s, l, start - 1)
                           \o SubSeq(s, start + 1, Len(s)),
                       start + 1)

SortedByPValue(p_values) ==
    LET run == CountRun(p_values) IN BinarySort(run.list, run.n + 1)

-----------------------------------------------------------------------------
\* scipy.stats on the two groups of one cell type

IsConstant(xs) == \A k \in 1..Len(xs) : xs[k] = xs[1]

GroupHasNull(xs) == \E k \in 1..Len(xs) : xs[k] = NULL

RECURSIVE GCD(_, _)
GCD(a, b) == IF b = 0 THEN a ELSE GCD(b, a % b)

\* the quotient num / den of a division of non-negative numbers, in lowest terms
Quotient(num, den) ==
    LET g == GCD(num, den) IN [num |-> num \div g, den |-> den \div g]

\* a mean that is not a number
NaNMean == [num |-> 0, den |-> 0]

\* mutant: sum(yes_data) // len(yes_data), the floor of the quotient
MeanFloorDivision(xs) ==
    IF Len(xs) = 0 THEN Quotient(0, 1)
    ELSE Quotient(10000 * (SumSeq(xs) \div (10000 * Len(xs))), 1)

\* yes_mean = sum(yes_data) / len(yes_data) if yes_data else 0, in units of 1e-4
\* percent
Mean(xs) ==
    IF Len(xs) = 0 THEN Quotient(0, 1) ELSE Quotient(SumSeq(xs), Len(xs))

\* np.mean(yes_data) if yes_data else 0: a NaN among the values makes the mean NaN
NpMean(xs) ==
    IF Len(xs) = 0 THEN Quotient(0, 1)
    ELSE IF GroupHasNull(xs) THEN NaNMean
    ELSE Quotient(SumSeq(xs), Len(xs))

\* f"{mean:.2f}" as a number of hundredths: the nearest, the even one of two
\* equally near; NaN is written nan
FormatTwoPlaces(mean) ==
    IF mean = NaNMean THEN NaN
    ELSE LET scale == 100 * mean.den
             down == mean.num \div scale
             twice == 2 * (mean.num % scale)
         IN IF twice > scale \/ (twice = scale /\ down % 2 = 1) THEN down + 1 ELSE down

\* ttest_ind(yes, no, equal_var=False): NaN for an empty group, for a group of one
\* value (no variance estimate) and for two constant groups of equal mean (0 / 0);
\* 0.0 for two constant groups of different mean; NaN propagates
TtestInd(yes, no, ct) ==
    IF Len(yes) = 0 \/ Len(no) = 0 THEN NaN
    ELSE IF GroupHasNull(yes) \/ GroupHasNull(no) THEN NaN
    ELSE IF Len(yes) = 1 \/ Len(no) = 1 THEN NaN
    ELSE IF IsConstant(yes) /\ IsConstant(no)
         THEN (IF yes[1] = no[1] THEN NaN ELSE Double(0))
    ELSE oracle[ct]

\* mannwhitneyu(yes, no, alternative='two-sided') on two non-empty groups:
\* 1.0 when all values are tied
MannWhitneyU(yes, no, ct) ==
    IF IsConstant(yes) /\ IsConstant(no) /\ yes[1] = no[1] THEN Double(6000)
    ELSE oracle[ct]

-----------------------------------------------------------------------------
\* analyze_frequencies_ttest / analyze_frequencies_mw

\* every cell type is handed to the test, whatever the size of its groups
TtestPValues(groups) ==
    [i \in 1..Len(cell_types) |->
        LET g == groups[cell_types[i]]
        IN [cell_type |-> cell_types[i],
            yes_mean |-> Mean(g.yes),
            no_mean |-> Mean(g.no),
            p_value |-> TtestInd(g.yes, g.no, cell_types[i])]]

\* for rank, idx in enumerate(sorted_indices):
\*     threshold = (rank + 1) / len(cell_types) * 0.05
\*     is_significant = p_value < threshold
TtestThreshold(rank) == BHThreshold(rank, Len(cell_types))

\* mutant: the p-value is compared with the FDR level 0.05 at every rank
TtestIsSignificantAtLevel(p_value, threshold) == ISLT(p_value, Double(300))

TtestIsSignificant(p_value, threshold) == ISLT(p_value, threshold)

TtestRow(entry, rank) ==
    [cell_type |-> entry.cell_type,
     yes_mean |-> entry.yes_mean,
     no_mean |-> entry.no_mean,
     p_value |-> entry.p_value,
     rank |-> rank + 1,
     threshold |-> TtestThreshold(rank),
     is_significant |-> TtestIsSignificant(entry.p_value, TtestThreshold(rank))]

TtestCorrect(p_values) ==
    LET sorted == SortedByPValue(p_values)
    IN [k \in 1..Len(sorted) |-> TtestRow(sorted[k], k - 1)]

\* sum(yes_data) raises TypeError on a None percentage before anything is tested
TtestOutcome(groups) ==
    IF HasNull(groups) THEN [error |-> "TypeError", results |-> <<>>]
    ELSE [error |-> "none", results |-> TtestCorrect(TtestPValues(groups))]

analyze_frequencies_ttest ==
    /\ last_call' = Call("analyze_frequencies_ttest", "", "", "")
    /\ error' = TtestOutcome(data_by_population).error
    /\ results' = TtestOutcome(data_by_population).results
    /\ UNCHANGED <<csv_file, sample_data, overview_table, data_by_population,
                   counts_reported, dashboard, imported, data_loaded, oracle, requests,
                   filter_result, sidebar, session_loads>>

HasEmptyGroup(groups) ==
    \E ct \in CellTypeSet : Len(groups[ct].yes) = 0 \/ Len(groups[ct].no) = 0

\* p-values of mannwhitneyu where scipy answers an empty group with NaN
MWPValues(groups) ==
    [i \in 1..Len(cell_types) |->
        LET g == groups[cell_types[i]]
        IN [cell_type |-> cell_types[i],
            yes_mean |-> Mean(g.yes),
            no_mean |-> Mean(g.no),
            p_value |-> IF Len(g.yes) = 0 \/ Len(g.no) = 0 THEN NaN
                        ELSE MannWhitneyU(g.yes, g.no, cell_types[i])]]

MWThreshold(rank) == BHThreshold(rank, Len(cell_types))

MWIsSignificant(p_value, threshold) == ISLT(p_value, threshold)

MWRow(entry, rank) ==
    [cell_type |-> entry.cell_type,
     yes_mean |-> entry.yes_mean,
     no_mean |-> entry.no_mean,
     p_value |-> entry.p_value,
     rank |-> rank + 1,
     threshold |-> MWThreshold(rank),
     is_significant |-> MWIsSignificant(entry.p_value, MWThreshold(rank))]

MWCorrect(p_values) ==
    LET sorted == SortedByPValue(p_values)
    IN [k \in 1..Len(sorted) |-> MWRow(sorted[k], k - 1)]

\* scipy answers an empty group with NaN or raises ValueError, by its version
MWOutcomes(groups) ==
    IF HasNull(groups) THEN {[error |-> "TypeError", results |-> <<>>]}
    ELSE {[error |-> "none", results |-> MWCorrect(MWPValues(groups))]}
         \cup (IF HasEmptyGroup(groups)
               THEN {[error |-> "ValueError", results |-> <<>>]} ELSE {})

analyze_frequencies_mw ==
    /\ last_call' = Call("analyze_frequencies_mw", "", "", "")
    /\ \E out \in MWOutcomes(data_by_population) :
        /\ error' = out.error
        /\ results' = out.results
    /\ UNCHANGED <<csv_file, sample_data, overview_table, data_by_population,
                   counts_reported, dashboard, imported, data_loaded, oracle, requests,
                   filter_result, sidebar, session_loads>>

-----------------------------------------------------------------------------
\* dashboard.py, sections 5 and 6: the analysis query, the grouping loop, Welch's
\* t-test per cell type and the correction

NoSelection == "<None>"

\* st.selectbox over the distinct values of a column: None when there are none
SelectOptions(values) == IF values = {} THEN {NoSelection} ELSE values

ConditionOptions(sd) == SelectOptions({sd.rows[k].condition : k \in 1..Len(sd.rows)})

TreatmentOptions(sd) == SelectOptions({sd.rows[k].treatment : k \in 1..Len(sd.rows)})

SampleTypeOptions == {"PBMC", "All"}

\* sample_type_filter = "PBMC" if sample_type == "PBMC" else "%"
SampleTypeFilter(sample_type) == IF sample_type = "PBMC" THEN "PBMC" ELSE "%"

\* the third parameter bound to  sd.sample_type = ?
SampleTypeParam(sample_type) ==
    IF sample_type # "All" THEN SampleTypeFilter(sample_type) ELSE "%"

\* if population in data_by_population and response in ['yes', 'no']: append
DashGroups(query_rows) ==
    [ct \in CellTypeSet |->
        [yes |-> GroupOf(query_rows, ct, "yes"), no |-> GroupOf(query_rows, ct, "no")]]

\* if len(yes_data) > 0 and len(no_data) > 0: test and append
DashTested(groups, ct) == Len(groups[ct].yes) > 0 /\ Len(groups[ct].no) > 0

DashPValues(groups) ==
    LET Tested(ct) == DashTested(groups, ct)
        tested == SelectSeq(cell_types, Tested)
    IN [k \in 1..Len(tested) |->
           [cell_type |-> tested[k],
            p_value |-> TtestInd(groups[tested[k]].yes, groups[tested[k]].no,
                                 tested[k]),
            yes_mean |-> NpMean(groups[tested[k]].yes),
            no_mean |-> NpMean(groups[tested[k]].no)]]

\* mutant: the divisor is the number of cell types that were tested
DashFamilySizeTested(p_values) == Len(p_values)

\* the divisor of the threshold is len(cell_types), not len(p_values)
DashFamilySize(p_values) == Len(cell_types)

\* mutant: 0.05 * (rank + 1) / len(cell_types), whose doubles are 0.01, 0.02, 0.03,
\* 0.04 and 0.05 themselves
DashThresholdLevelFirst(rank, p_values) ==
    Double((300 * (rank + 1)) \div DashFamilySize(p_values))

DashThreshold(rank, p_values) == BHThreshold(rank, DashFamilySize(p_values))

DashIsSignificant(p_value, threshold) == ISLT(p_value, threshold)

\* cell_type.replace('_', ' ').title()
Title(cell_type) ==
    CASE cell_type = "b_cell" -> "B Cell"
      [] cell_type = "cd8_t_cell" -> "Cd8 T Cell"
      [] cell_type = "cd4_t_cell" -> "Cd4 T Cell"
      [] cell_type = "nk_cell" -> "Nk Cell"
      [] cell_type = "monocyte" -> "Monocyte"

\* the 'Significant' column: "Yes" with a check mark, or "No"
Marker(is_significant) == IF is_significant THEN "Yes" ELSE "No"

\* one dictionary of results_df, with the values it was made of: the texts are
\* title ('Cell Type'), responders_mean and non_responders_mean (the two mean
\* columns) and significant ('Significant')
DashRow(entry, rank, p_values) ==
    [cell_type |-> entry.cell_type,
     title |-> Title(entry.cell_type),
     yes_mean |-> entry.yes_mean,
     no_mean |-> entry.no_mean,
     responders_mean |-> FormatTwoPlaces(entry.yes_mean),
     non_responders_mean |-> FormatTwoPlaces(entry.no_mean),
     p_value |-> entry.p_value,
     rank |-> rank + 1,
     threshold |-> DashThreshold(rank, p_values),
     is_significant |-> DashIsSignificant(entry.p_value, DashThreshold(rank, p_values)),
     significant |-> Marker(DashIsSignificant(entry.p_value,
                                              DashThreshold(rank, p_values)))]

DashCorrect(p_values) ==
    IF p_values = <<>> THEN <<>>
    ELSE LET sorted == SortedByPValue(p_values)
         IN [k \in 1..Len(sorted) |-> DashRow(sorted[k], k - 1, p_values)]

\* mutant: the list is made of the rows whose p-value is below the FDR level
SignificantCellsByPValue(results_df) ==
    LET Flagged(r) == ISLT(r.p_value, Double(300))
        flagged == SelectSeq(results_df, Flagged)
    IN [k \in 1..Len(flagged) |-> flagged[k].title]

\* [r['Cell Type'] for r in results_df if r['Significant'] == "Yes" with its mark]
SignificantCells(results_df) ==
    LET Flagged(r) == r.significant = "Yes"
        flagged == SelectSeq(results_df, Flagged)
    IN [k \in 1..Len(flagged) |-> flagged[k].title]

\* section 6 on the grouped percentages
DashStatistics(groups, samples) ==
    LET results_df == DashCorrect(DashPValues(groups))
    IN [analysis |-> "shown", analysis_samples |-> samples,
        data_by_population |-> groups, results_df |-> results_df,
        significant_cells |-> SignificantCells(results_df)]

DashWarning ==
    [analysis |-> "warning", analysis_samples |-> {}, data_by_population |-> EmptyGroups,
     results_df |-> <<>>, significant_cells |-> <<>>]

\* a NULL percentage reaches numpy as NaN, or as None when the whole column is NULL
DashStatisticsOutcomes(groups, samples) ==
    {[error |-> "none", dashboard |-> DashStatistics(groups, samples)]}
    \cup (IF HasNull(groups)
          THEN {[error |-> "TypeError", dashboard |-> NoDashboard]} ELSE {})

\* the values of the sample column of the query result
AnalysisSamples(analysis_data) ==
    {analysis_data[k].sample : k \in 1..Len(analysis_data)}

DashAnalysisOutcomes(sd, ov, condition, treatment, sample_type) ==
    IF ~(sd.exists /\ ov.exists)
    THEN {[error |-> "DatabaseError", dashboard |-> NoDashboard]}
    ELSE LET analysis_data == AnalysisQuery(ov.rows, sd.rows, condition, treatment,
                                            SampleTypeParam(sample_type))
         IN IF Len(analysis_data) > 0
            THEN DashStatisticsOutcomes(DashGroups(analysis_data),
                                        AnalysisSamples(analysis_data))
            ELSE {[error |-> "none", dashboard |-> DashWarning]}

-----------------------------------------------------------------------------
\* dashboard.py, section 1: the option lists of the sidebar, the multiselect
\* widgets and the query they build

\* the columns that have a multiselect
SidebarColumns == {"project", "condition", "treatment", "sex", "response"}

\* SELECT DISTINCT column FROM the sample table
Distinct(sd, column) == {sd.rows[k][column] : k \in 1..Len(sd.rows)}

\* [x for x in (the distinct responses) if x]: the empty response is not offered
responses(sd) == {x \in Distinct(sd, "response") : x # ""}

\* the options each multiselect offers (the order of a list plays no part in the
\* query)
Options(sd) ==
    [column \in SidebarColumns |->
        IF column = "response" THEN responses(sd) ELSE Distinct(sd, column)]

\* default=projects, default=conditions, ...: every option is selected
DefaultSelection(sd) == Options(sd)

\* what the user can leave selected: some of the options of each multiselect
Selections(sd) ==
    {[column \in SidebarColumns |->
        CASE column = "project" -> p
          [] column = "condition" -> c
          [] column = "treatment" -> t
          [] column = "sex" -> x
          [] column = "response" -> r] :
        p \in SUBSET Options(sd)["project"], c \in SUBSET Options(sd)["condition"],
        t \in SUBSET Options(sd)["treatment"], x \in SUBSET Options(sd)["sex"],
        r \in SUBSET Options(sd)["response"]}

\* WHERE 1=1, and  AND column IN (...)  for each multiselect with a selection
SidebarQuery(rows, selected) ==
    LET Kept(row) ==
            \A column \in SidebarColumns :
                selected[column] # {} => row[column] \in selected[column]
    IN SelectSeq(rows, Kept)

NoSidebar == [selected |-> [column \in SidebarColumns |-> {}], filtered_data |-> <<>>]

Sidebar(sd, selected) ==
    [selected |-> selected, filtered_data |-> SidebarQuery(sd.rows, selected)]

\* sections 1 to 3 of a run of the script with the sidebar as the user has left it
dashboard_filter ==
    /\ IF sample_data.exists
       THEN /\ \E selected \in Selections(sample_data) :
                  sidebar' = Sidebar(sample_data, selected)
            /\ error' = "none"
       ELSE /\ sidebar' = NoSidebar
            /\ error' = "DatabaseError"
    /\ last_call' = Call("dashboard_filter", "", "", "")
    /\ UNCHANGED <<csv_file, sample_data, overview_table, data_by_population,
                   counts_reported, results, dashboard, imported, data_loaded, oracle,
                   requests, filter_result, session_loads>>

-----------------------------------------------------------------------------
\* The module level of teiko_technical.py, which the dashboard's import statement
\* executes while the module is not in sys.modules: load, overview, plot for
\* ("miraclib", "melanoma"), Welch analysis, further_analysis (read only)

ModuleOutcome(sd, ov, plot) ==
    IF plot.error # "none"
    THEN [error |-> plot.error, sample_data |-> sd, overview_table |-> ov,
          data_by_population |-> data_by_population,
          counts_reported |-> counts_reported, results |-> results]
    ELSE [error |-> TtestOutcome(plot.groups).error, sample_data |-> sd,
          overview_table |-> ov, data_by_population |-> plot.groups,
          counts_reported |-> plot.counts,
          results |-> TtestOutcome(plot.groups).results]

TeikoModuleOutcomes(file) ==
    LET sd == LoadOutcome(file).table
        ov == Overview(sd).table
    IN IF LoadOutcome(file).error # "none"
       THEN {ModuleOutcome(sd, overview_table, PlotRaise(LoadOutcome(file).error))}
       ELSE {ModuleOutcome(sd, ov, plot) :
                plot \in PlotOutcomes(sd, ov, "miraclib", "melanoma")}

ModuleCached ==
    [error |-> "none", sample_data |-> sample_data, overview_table |-> overview_table,
     data_by_population |-> data_by_population, counts_reported |-> counts_reported,
     results |-> results]

\* one run of the dashboard script, with the sidebar at its defaults; the import
\* statement calls load_csv_to_sqlite when it executes the module, the script calls
\* it when data_loaded is not set
dashboard_run ==
    /\ session_loads < MaxSessionLoads
    /\ \E m \in (IF imported THEN {ModuleCached} ELSE TeikoModuleOutcomes(csv_file)) :
        /\ overview_table' = m.overview_table
        /\ data_by_population' = m.data_by_population
        /\ counts_reported' = m.counts_reported
        /\ results' = m.results
        /\ IF m.error # "none"
           THEN /\ sample_data' = m.sample_data
                /\ dashboard' = NoDashboard
                /\ error' = m.error
                /\ last_call' = Call("dashboard_import", "", "", "")
                /\ session_loads' = session_loads + 1
                /\ UNCHANGED <<imported, data_loaded, sidebar>>
           ELSE LET sd == IF data_loaded THEN m.sample_data ELSE LoadCsv(csv_file)
                IN /\ sample_data' = sd
                   /\ imported' = TRUE
                   /\ data_loaded' = TRUE
                   /\ session_loads' = session_loads + (IF imported THEN 0 ELSE 1)
                                          + (IF data_loaded THEN 0 ELSE 1)
                   /\ sidebar' = Sidebar(sd, DefaultSelection(sd))
                   /\ \E condition \in ConditionOptions(sd),
                         treatment \in TreatmentOptions(sd),
                         sample_type \in SampleTypeOptions :
                        /\ last_call' = Call("dashboard", condition, treatment,
                                             sample_type)
                        /\ \E out \in DashAnalysisOutcomes(sd, m.overview_table,
                                          condition, treatment, sample_type) :
                             /\ dashboard' = out.dashboard
                             /\ error' = out.error
    /\ UNCHANGED <<csv_file, oracle, requests, filter_result>>

\* section 6 applied to grouped percentages given as they are
dashboard_statistics ==
    /\ \E out \in DashStatisticsOutcomes(dashboard.data_by_population,
                                          dashboard.analysis_samples) :
        /\ dashboard' = out.dashboard
        /\ error' = out.error
    /\ last_call' = Call("dashboard_statistics", "", "", "")
    /\ UNCHANGED <<csv_file, sample_data, overview_table, data_by_population,
                   counts_reported, results, imported, data_loaded, oracle, requests,
                   filter_result, sidebar, session_loads>>

-----------------------------------------------------------------------------
\* Specification of the database pipeline: the CSV file is any table of at most
\* MaxRows rows; the operations run in any order

RECURSIVE SeqsUpTo(_, _)
SeqsUpTo(S, n) ==
    IF n = 0 THEN {<<>>}
    ELSE LET shorter == SeqsUpTo(S, n - 1)
         IN shorter \cup {Append(s, x) : s \in {t \in shorter : Len(t) = n - 1}, x \in S}

\* the p-values of the worked example, 0.001, 0.01, 0.02, 0.04, 0.20
ExampleOracle ==
    [ct \in CellTypeSet |->
        CASE ct = "b_cell" -> Double(6)
          [] ct = "cd8_t_cell" -> Double(60)
          [] ct = "cd4_t_cell" -> Double(120)
          [] ct = "nk_cell" -> Double(240)
          [] OTHER -> Double(1200)]

Init ==
    /\ csv_file \in {CsvFile(rows) : rows \in SeqsUpTo(Rows, MaxRows)}
    /\ sample_data = NoTable
    /\ overview_table = NoTable
    /\ data_by_population = EmptyGroups
    /\ counts_reported = [yes |-> 0, no |-> 0]
    /\ results = <<>>
    /\ dashboard = NoDashboard
    /\ imported = FALSE
    /\ data_loaded = FALSE
    /\ oracle = ExampleOracle
    /\ requests = NoRequests
    /\ filter_result = NoFilterResult
    /\ sidebar = NoSidebar
    /\ session_loads = 0
    /\ last_call = NoCall
    /\ error = "none"

Next ==
    \/ load_csv_to_sqlite
    \/ overview
    \/ \E t \in Treatments, c \in Conditions : plot_cell_frequencies(t, c)
    \/ dashboard_run

Spec == Init /\ [][Next]_vars

-----------------------------------------------------------------------------
\* Specification of the overview step: the CSV file is any table of at most
\* MaxOverviewRows rows whose counts vary

InitOverview ==
    /\ csv_file \in {CsvFile(rows) : rows \in SeqsUpTo(RowsByCounts, MaxOverviewRows)}
    /\ sample_data = NoTable
    /\ overview_table = NoTable
    /\ data_by_population = EmptyGroups
    /\ counts_reported = [yes |-> 0, no |-> 0]
    /\ results = <<>>
    /\ dashboard = NoDashboard
    /\ imported = FALSE
    /\ data_loaded = FALSE
    /\ oracle = ExampleOracle
    /\ requests = NoRequests
    /\ filter_result = NoFilterResult
    /\ sidebar = NoSidebar
    /\ session_loads = 0
    /\ last_call = NoCall
    /\ error = "none"

NextOverview ==
    \/ load_csv_to_sqlite
    \/ overview

SpecOverview == InitOverview /\ [][NextOverview]_vars

-----------------------------------------------------------------------------
\* Specification of the statistical step as a function of its input: the grouped
\* percentages and the p-values of the non-degenerate tests are drawn, and each
\* analysis is applied to them

\* 0.001, 0.01, 0.015, 0.02, 0.04, 0.20
PGrid == {Double(6), Double(60), Double(90), Double(120), Double(240), Double(1200)}

EmptyResponders == [yes |-> <<>>, no |-> <<50000, 60000>>]

IdenticalGroups == [yes |-> <<50000, 50000, 50000>>, no |-> <<50000, 50000, 50000>>]

SeparatedGroups ==
    [yes |-> <<100000, 120000, 110000>>, no |-> <<200000, 220000, 210000>>]

GroupInputs == {EmptyResponders, IdenticalGroups, SeparatedGroups}

InitBH ==
    /\ data_by_population \in [CellTypeSet -> GroupInputs]
    /\ oracle \in [CellTypeSet -> PGrid]
    /\ \A ct \in CellTypeSet :
          data_by_population[ct] # SeparatedGroups => oracle[ct] = Double(6)
    /\ dashboard = [NoDashboard EXCEPT !.data_by_population = data_by_population]
    /\ csv_file = CsvFile(<<>>)
    /\ sample_data = NoTable
    /\ overview_table = NoTable
    /\ counts_reported = [yes |-> 0, no |-> 0]
    /\ results = <<>>
    /\ imported = FALSE
    /\ data_loaded = FALSE
    /\ requests = NoRequests
    /\ filter_result = NoFilterResult
    /\ sidebar = NoSidebar
    /\ session_loads = 0
    /\ last_call = NoCall
    /\ error = "none"

NextBH ==
    \/ analyze_frequencies_ttest
    \/ analyze_frequencies_mw
    \/ dashboard_statistics

SpecBH == InitBH /\ [][NextBH]_vars

-----------------------------------------------------------------------------
\* The row filter of test_teiko_technical.py (TestFilter.get_filter_result_count):
\* SELECT * FROM the sample table WHERE column = ? AND ..., one condition for each
\* keyword argument that names one of valid_columns

valid_columns ==
    <<"project", "subject", "condition", "age", "sex", "treatment", "response",
      "sample", "sample_type", "time_from_treatment_start">>

\* the (column, value) pairs that become conditions: names outside valid_columns
\* are skipped
WhereConditions(filters) ==
    {f \in filters : \E i \in 1..Len(valid_columns) : valid_columns[i] = f[1]}

\* mutant: the conditions are joined by OR
SatisfiesAny(row, conditions) ==
    conditions = {} \/ \E f \in conditions : row[f[1]] = f[2]

\* WHERE c1 = ? AND c2 = ? ...; no WHERE clause without conditions
Satisfies(row, conditions) ==
    \A f \in conditions : row[f[1]] = f[2]

FilterQuery(rows, filters) ==
    LET Kept(row) == Satisfies(row, WhereConditions(filters))
    IN SelectSeq(rows, Kept)

\* the keyword arguments of a call: at most one value for each name
FilterArguments ==
    {<<"condition", "melanoma">>, <<"sex", "M">>, <<"sex", "F">>,
     <<"project", "prj2">>, <<"b_cell", 100>>}

Filters ==
    {fs \in SUBSET FilterArguments : \A f, g \in fs : f[1] = g[1] => f = g}

get_filter_result_count ==
    /\ \E filters \in Filters :
        IF sample_data.exists
        THEN /\ filter_result' = [filters |-> filters,
                                  rows |-> FilterQuery(sample_data.rows, filters),
                                  count |-> Len(FilterQuery(sample_data.rows, filters))]
             /\ error' = "none"
        ELSE /\ filter_result' = [filters |-> filters, rows |-> <<>>, count |-> 0]
             /\ error' = "OperationalError"
    /\ last_call' = Call("get_filter_result_count", "", "", "")
    /\ UNCHANGED <<csv_file, sample_data, overview_table, data_by_population,
                   counts_reported, results, dashboard, imported, data_loaded, oracle,
                   requests, sidebar, session_loads>>

\* rows that vary the columns the filters name
RowsByAttributes ==
    [project : {"prj1", "prj2"}, subject : {"sbj1"}, condition : Conditions, age : {50},
     sex : {"M", "F"}, treatment : {"miraclib"}, response : {"yes"}, sample : {"s1"},
     sample_type : {"PBMC"}, time_from_treatment_start : {0},
     counts : {ReferenceCounts}]

InitFilter ==
    /\ csv_file \in {CsvFile(rows) : rows \in SeqsUpTo(RowsByAttributes, MaxFilterRows)}
    /\ sample_data = NoTable
    /\ overview_table = NoTable
    /\ data_by_population = EmptyGroups
    /\ counts_reported = [yes |-> 0, no |-> 0]
    /\ results = <<>>
    /\ dashboard = NoDashboard
    /\ imported = FALSE
    /\ data_loaded = FALSE
    /\ oracle = ExampleOracle
    /\ requests = NoRequests
    /\ filter_result = NoFilterResult
    /\ sidebar = NoSidebar
    /\ session_loads = 0
    /\ last_call = NoCall
    /\ error = "none"

NextFilter ==
    \/ load_csv_to_sqlite
    \/ get_filter_result_count

SpecFilter == InitFilter /\ [][NextFilter]_vars

-----------------------------------------------------------------------------
\* Specification of the sidebar: the CSV file is any table of at most
\* MaxSidebarRows rows whose project, response and sample vary

RowsBySidebar ==
    [project : {"prj1", "prj2"}, subject : {"sbj1"}, condition : {"melanoma"},
     age : {50}, sex : {"M"}, treatment : {"miraclib"}, response : Responses,
     sample : Samples, sample_type : {"PBMC"}, time_from_treatment_start : {0},
     counts : {ReferenceCounts}]

InitSidebar ==
    /\ csv_file \in {CsvFile(rows) : rows \in SeqsUpTo(RowsBySidebar, MaxSidebarRows)}
    /\ sample_data = NoTable
    /\ overview_table = NoTable
    /\ data_by_population = EmptyGroups
    /\ counts_reported = [yes |-> 0, no |-> 0]
    /\ results = <<>>
    /\ dashboard = NoDashboard
    /\ imported = FALSE
    /\ data_loaded = FALSE
    /\ oracle = ExampleOracle
    /\ requests = NoRequests
    /\ filter_result = NoFilterResult
    /\ sidebar = NoSidebar
    /\ session_loads = 0
    /\ last_call = NoCall
    /\ error = "none"

NextSidebar ==
    \/ load_csv_to_sqlite
    \/ dashboard_filter

SpecSidebar == InitSidebar /\ [][NextSidebar]_vars

-----------------------------------------------------------------------------
\* Callers of the pipeline. Every caller passes the same db_name, table_name and
\* overview_table_name, so that all of them work on the same two tables; a caller
\* loads its input file, then runs overview, plot_cell_frequencies and
\* analyze_frequencies_ttest, and may run these three again. Each call is a step.

RequestCall(op, r) ==
    [Call(op, requests[r].condition, requests[r].treatment, "PBMC")
        EXCEPT !.request = r]

\* what one run prints: the groups, the sample counts and the table of results,
\* or the exception that ended it
Report(plot) ==
    IF plot.error # "none"
    THEN [error |-> plot.error, data_by_population |-> EmptyGroups,
          counts |-> [yes |-> 0, no |-> 0], results |-> <<>>]
    ELSE [error |-> TtestOutcome(plot.groups).error,
          data_by_population |-> plot.groups,
          counts |-> plot.counts,
          results |-> TtestOutcome(plot.groups).results]

\* the caller after a run: it starts the next run or has finished
AfterRun(request, report) ==
    LET reports == Append(request.reports, report)
    IN [request EXCEPT !.reports = reports,
                       !.pc = IF Len(reports) < request.runs THEN "overview"
                              ELSE "done"]

\* the caller whose load has raised: its pipeline ends with the exception
AfterFailedLoad(request, exception) ==
    [request EXCEPT !.pc = "done",
                    !.reports = Append(request.reports, Report(PlotRaise(exception)))]

request_load(r) ==
    /\ requests[r].pc = "load"
    /\ sample_data' = LoadOutcome(requests[r].file).table
    /\ requests' = [requests EXCEPT
                       ![r] = IF LoadOutcome(requests[r].file).error = "none"
                              THEN [requests[r] EXCEPT !.pc = "overview"]
                              ELSE AfterFailedLoad(requests[r],
                                                   LoadOutcome(requests[r].file).error)]
    /\ last_call' = RequestCall("request_load", r)
    /\ error' = LoadOutcome(requests[r].file).error
    /\ UNCHANGED <<csv_file, overview_table, data_by_population, counts_reported,
                   results, dashboard, imported, data_loaded, oracle, filter_result,
                   sidebar, session_loads>>

request_overview(r) ==
    /\ requests[r].pc = "overview"
    /\ overview_table' = Overview(sample_data).table
    /\ error' = Overview(sample_data).error
    /\ requests' = [requests EXCEPT ![r].pc = "analyse"]
    /\ last_call' = RequestCall("request_overview", r)
    /\ UNCHANGED <<csv_file, sample_data, data_by_population, counts_reported,
                   results, dashboard, imported, data_loaded, oracle, filter_result,
                   sidebar, session_loads>>

request_analyse(r) ==
    /\ requests[r].pc = "analyse"
    /\ \E plot \in PlotOutcomes(sample_data, overview_table, requests[r].treatment,
                                requests[r].condition) :
        /\ requests' = [requests EXCEPT ![r] = AfterRun(requests[r], Report(plot))]
        /\ error' = Report(plot).error
    /\ last_call' = RequestCall("request_analyse", r)
    /\ UNCHANGED <<csv_file, sample_data, overview_table, data_by_population,
                   counts_reported, results, dashboard, imported, data_loaded, oracle,
                   filter_result,
                   sidebar, session_loads>>

\* the rows of the callers' input files
RequestRows ==
    [project : {"prj1"}, subject : {"sbj1"}, condition : {"melanoma"}, age : {50},
     sex : {"M"}, treatment : {"miraclib"}, response : {"yes", "no"}, sample : Samples,
     sample_type : {"PBMC"}, time_from_treatment_start : {0},
     counts : {ReferenceCounts}]

\* a caller about to load its file and run the pipeline a number of times
NewRequest(file, treatment, runs) ==
    [pc |-> "load", file |-> file, treatment |-> treatment, condition |-> "melanoma",
     runs |-> runs, reports |-> <<>>]

InitRequests ==
    /\ csv_file = CsvFile(<<>>)
    /\ sample_data = NoTable
    /\ overview_table = NoTable
    /\ data_by_population = EmptyGroups
    /\ counts_reported = [yes |-> 0, no |-> 0]
    /\ results = <<>>
    /\ dashboard = NoDashboard
    /\ imported = FALSE
    /\ data_loaded = FALSE
    /\ oracle = ExampleOracle
    /\ filter_result = NoFilterResult
    /\ sidebar = NoSidebar
    /\ session_loads = 0
    /\ last_call = NoCall
    /\ error = "none"

\* two callers at a time, each running the pipeline once
InitConcurrent ==
    /\ InitRequests
    /\ requests \in
          [RequestIds ->
              {NewRequest(CsvFile(rows), treatment, 1) :
                  rows \in SeqsUpTo(RequestRows, MaxConcurrentRows),
                  treatment \in Treatments}]

NextRequests ==
    \E r \in RequestIds : request_load(r) \/ request_overview(r) \/ request_analyse(r)

SpecConcurrent == InitConcurrent /\ [][NextRequests]_vars

\* a data line that lacks its last field
ShortLine(row) == SubSeq(CsvLine(row), 1, Len(Header) - 1)

\* files that load: a header line and at most MaxLoadRows data lines
WellFormedFiles == {CsvFile(rows) : rows \in SeqsUpTo(RequestRows, MaxLoadRows)}

\* files that do not: the file without lines, and the files above with a short
\* line after their last line
MalformedFiles ==
    {<<>>} \cup {Append(file, ShortLine(row)) : file \in WellFormedFiles,
                                                row \in RequestRows}

\* two callers whose files may be malformed
InitLoad ==
    /\ InitRequests
    /\ requests \in
          [RequestIds ->
              {NewRequest(file, "miraclib", 1) : file \in WellFormedFiles \cup MalformedFiles}]

SpecLoad == InitLoad /\ [][NextRequests]_vars

\* one caller, running the pipeline MaxRuns times on the file it has loaded
InitRepeat ==
    /\ InitRequests
    /\ \E rows \in SeqsUpTo(RequestRows, MaxRepeatRows), treatment \in Treatments :
          requests = [NoRequests EXCEPT
                         !["r1"] = NewRequest(CsvFile(rows), treatment, MaxRuns)]

SpecRepeat == InitRepeat /\ [][NextRequests]_vars

-----------------------------------------------------------------------------
\* Properties of the overview step

\* the five populations and the position of each one's count in a sample row
ClaimPopulations == <<"b_cell", "cd8_t_cell", "cd4_t_cell", "nk_cell", "monocyte">>

OverviewRan == last_call.op = "overview" /\ error = "none"

Abs(x) == IF x < 0 THEN -x ELSE x

\* sum of field f over the overview rows of sample s
OverviewSum(s, Field(_)) ==
    SumSeq([j \in 1..Len(overview_table.rows) |->
                IF overview_table.rows[j].sample = s
                THEN Field(overview_table.rows[j]) ELSE 0])

RowsOfSample(s) == {k \in 1..Len(sample_data.rows) : sample_data.rows[k].sample = s}

\* C7: overview on a sample whose five counts are all zero fails with a division
\* by zero error and leaves no overview row with a NULL or zero percentage for it
C7_ZeroTotalRaises ==
    (last_call.op = "overview"
        /\ \E k \in 1..Len(sample_data.rows) :
              \A i \in 1..5 : sample_data.rows[k].counts[i] = 0)
    => /\ error = "ZeroDivisionError"
       /\ \A j \in 1..Len(overview_table.rows) :
             overview_table.rows[j].total_count = 0
                => overview_table.rows[j].percentage \notin {NULL, 0}

\* C8: after overview on N sample rows the overview table has 5 * N rows, and for
\* every sample row and each of the five populations it has one row carrying that
\* sample, that population and that count (as many such rows as there are sample
\* rows with that identifier and that count), zero counts included
C8_FiveRowsPerSample ==
    OverviewRan =>
        LET sd == sample_data.rows
            ov == overview_table.rows
        IN /\ overview_table.exists
           /\ Len(ov) = 5 * Len(sd)
           /\ \A k \in 1..Len(sd), i \in 1..5 :
                 Cardinality({j \in 1..Len(ov) :
                                 /\ ov[j].sample = sd[k].sample
                                 /\ ov[j].population = ClaimPopulations[i]
                                 /\ ov[j].count = sd[k].counts[i]})
                 = Cardinality({m \in 1..Len(sd) :
                                   /\ sd[m].sample = sd[k].sample
                                   /\ sd[m].counts[i] = sd[k].counts[i]})

\* C8 witness: overview ran on two rows, one of them with a population of count 0
C8_Witness ==
    /\ OverviewRan
    /\ Len(sample_data.rows) = 2
    /\ Len(overview_table.rows) = 10
    /\ \E j \in 1..Len(overview_table.rows) :
          overview_table.rows[j].count = 0 /\ overview_table.rows[j].total_count > 0

\* C9: every overview row carries the total of a sample row of its sample, the sum
\* of that row's five counts, next to that row's count of the population; the rows
\* of a sample stored once all carry one total_count; and the counts of a sample's
\* overview rows add up to its total_count (five rows carry each total)
C9_TotalCountIsSum ==
    OverviewRan =>
        LET sd == sample_data.rows
            ov == overview_table.rows
            Count(o) == o.count
            Total(o) == o.total_count
        IN /\ \A j \in 1..Len(ov) :
                 \E k \in 1..Len(sd), i \in 1..5 :
                     /\ ov[j].sample = sd[k].sample
                     /\ ov[j].population = ClaimPopulations[i]
                     /\ ov[j].count = sd[k].counts[i]
                     /\ ov[j].total_count = sd[k].counts[1] + sd[k].counts[2]
                            + sd[k].counts[3] + sd[k].counts[4] + sd[k].counts[5]
           /\ \A j1, j2 \in 1..Len(ov) :
                 (ov[j1].sample = ov[j2].sample
                     /\ Cardinality(RowsOfSample(ov[j1].sample)) = 1)
                 => ov[j1].total_count = ov[j2].total_count
           /\ \A s \in Samples : 5 * OverviewSum(s, Count) = OverviewSum(s, Total)

\* C9 witness: overview ran on two samples of different, non-zero totals
C9_Witness ==
    /\ OverviewRan
    /\ \E j1, j2 \in 1..Len(overview_table.rows) :
          /\ overview_table.rows[j1].sample # overview_table.rows[j2].sample
          /\ overview_table.rows[j1].total_count > overview_table.rows[j2].total_count
          /\ overview_table.rows[j2].total_count > 0

\* C10: for a total_count above 0 the percentage is the multiple of 0.0001 nearest
\* to 100 * count / total_count, and the percentages of a sample sum to within
\* 0.001 of 100 (of n times 100 for an identifier stored n times)
C10_PercentagesRounded ==
    OverviewRan =>
        LET ov == overview_table.rows
            Pct(o) == o.percentage
        IN /\ \A j \in 1..Len(ov) :
                 ov[j].total_count > 0
                 => /\ ov[j].percentage # NULL
                    /\ 2 * Abs(ov[j].percentage * ov[j].total_count
                               - 1000000 * ov[j].count) <= ov[j].total_count
           /\ \A s \in Samples :
                 (\A j \in 1..Len(ov) : ov[j].sample = s => ov[j].total_count > 0)
                 => Abs(OverviewSum(s, Pct) - 1000000 * Cardinality(RowsOfSample(s)))
                        <= 10 * Cardinality(RowsOfSample(s))

\* C10 witness: overview ran on a sample whose rounded percentages do not sum to
\* exactly 100
C10_Witness ==
    /\ OverviewRan
    /\ \E s \in Samples :
          /\ Cardinality(RowsOfSample(s)) = 1
          /\ \A j \in 1..Len(overview_table.rows) :
                overview_table.rows[j].sample = s
                    => overview_table.rows[j].total_count > 0
          /\ LET Pct(o) == o.percentage IN OverviewSum(s, Pct) # 1000000

-----------------------------------------------------------------------------
\* Properties of the partitioning

\* the sample rows a filter on condition, treatment and sample type selects
FilterMatches(row, call) ==
    /\ row.condition = call.condition
    /\ row.treatment = call.treatment
    /\ (call.sample_type = "All" \/ row.sample_type = call.sample_type)

MatchingRows(call) ==
    {k \in 1..Len(sample_data.rows) : FilterMatches(sample_data.rows[k], call)}

LabelledRows(call) ==
    {k \in MatchingRows(call) : sample_data.rows[k].response \in {"yes", "no"}}

TablesReady ==
    /\ sample_data.exists
    /\ overview_table.exists
    /\ overview_table.rows = OverviewRows(sample_data.rows)
    /\ \A k \in 1..Len(sample_data.rows) : total_count(sample_data.rows[k]) > 0

\* C4: a sample that passes the filter with a response other than 'yes' and 'no'
\* is left out of both groups, and the partitioning returns without an error
C4_OtherLabelsSkipped ==
    (last_call.op = "plot_cell_frequencies" /\ TablesReady
        /\ MatchingRows(last_call) # LabelledRows(last_call))
    => /\ error = "none"
       /\ LabelledRows(last_call) = {} => data_by_population = EmptyGroups

\* C5: after a partitioning, for each population the sizes of the two groups add
\* up to the number of sample rows that match the filter and are labelled 'yes'
\* or 'no' (stated for the concrete sample type, PBMC)
C5_GroupSizesCountSamples ==
    /\ (last_call.op = "plot_cell_frequencies" /\ error = "none")
       => \A ct \in CellTypeSet :
             Len(data_by_population[ct].yes) + Len(data_by_population[ct].no)
                = Cardinality(LabelledRows(last_call))
    /\ (last_call.op = "dashboard" /\ error = "none" /\ last_call.sample_type = "PBMC")
       => \A ct \in CellTypeSet :
             Len(dashboard.data_by_population[ct].yes)
                + Len(dashboard.data_by_population[ct].no)
                = Cardinality(LabelledRows(last_call))

\* C6: the dashboard analyses exactly the samples whose condition and treatment
\* are the chosen ones and, unless the sample type choice is 'All', whose
\* sample_type is the chosen one
C6_WildcardSelectsAnyType ==
    (last_call.op = "dashboard" /\ error = "none")
    => dashboard.analysis_samples
          = {sample_data.rows[k].sample : k \in MatchingRows(last_call)}

-----------------------------------------------------------------------------
\* Properties of the statistical step

Analysed ==
    /\ last_call.op \in {"analyze_frequencies_ttest", "analyze_frequencies_mw"}
    /\ error = "none"

DashboardShown ==
    /\ last_call.op \in {"dashboard", "dashboard_statistics"}
    /\ error = "none"
    /\ dashboard.analysis = "shown"

\* p <= threshold on doubles
LessOrEqual(p, threshold) == p # NaN /\ p <= threshold

\* the largest rank whose p-value is at most its threshold, 0 when there is none
StepUpRank(rows) ==
    LET passing == {k \in 1..Len(rows) : LessOrEqual(rows[k].p_value, rows[k].threshold)}
    IN IF passing = {} THEN 0 ELSE CHOOSE k \in passing : \A j \in passing : j <= k

StepUpDecision(rows) ==
    \A k \in 1..Len(rows) : rows[k].is_significant <=> k <= StepUpRank(rows)

\* C1: the populations flagged significant are exactly those ranked 1..r*, r* the
\* largest rank whose p-value is at most the threshold of that rank
C1_StepUpDecision ==
    /\ Analysed => StepUpDecision(results)
    /\ DashboardShown => StepUpDecision(dashboard.results_df)

\* the worked example of C1: on the p-values 0.001, 0.01, 0.02, 0.04, 0.20 the
\* ranks 1 to 4 are flagged and rank 5 is not
C1_WorkedExample ==
    (Analysed /\ Len(results) = 5
        /\ \A k \in 1..5 :
              results[k].p_value
                 = <<Double(6), Double(60), Double(120), Double(240), Double(1200)>>[k])
    => \A k \in 1..5 : results[k].is_significant <=> k <= 4

\* C2: the threshold of the result at rank r is the double (r / 5) * 0.05, that
\* is 0.01 * r up to the last bit, whatever the number of populations tested
ThresholdOverFive(rows) ==
    \A r \in 1..Len(rows) :
        rows[r].threshold \in {Double(60 * r), Double(60 * r) + 1}

C2_ThresholdOverFive ==
    /\ Analysed => ThresholdOverFive(results)
    /\ DashboardShown => ThresholdOverFive(dashboard.results_df)

\* C2 witness: the dashboard has tested and ranked fewer than five populations
C2_Witness ==
    /\ DashboardShown
    /\ Len(dashboard.results_df) \in 2..4

\* C3: a population with an empty responder or non-responder group has no row in
\* the results of an analysis
BothGroupsFilled(groups, rows) ==
    \A k \in 1..Len(rows) :
        Len(groups[rows[k].cell_type].yes) > 0 /\ Len(groups[rows[k].cell_type].no) > 0

C3_EmptyGroupOmitted ==
    /\ Analysed => BothGroupsFilled(data_by_population, results)
    /\ DashboardShown => BothGroupsFilled(dashboard.data_by_population,
                                          dashboard.results_df)

\* a < b on p-values, which no comparison with NaN satisfies
Below(a, b) == a # NaN /\ b # NaN /\ a < b

\* no row is followed, at any distance, by a row of smaller p-value, and the row
\* at position i carries rank i
RankedAscending(rows) ==
    /\ \A i, j \in 1..Len(rows) : i < j => ~Below(rows[j].p_value, rows[i].p_value)
    /\ \A i \in 1..Len(rows) : rows[i].rank = i

\* C11: the corrected results come in non-decreasing p-value order and the result
\* at position i has rank i, so that the ranks are 1..k without gaps
C11_RankedAscending ==
    /\ Analysed => RankedAscending(results)
    /\ DashboardShown => RankedAscending(dashboard.results_df)

\* the populations of an analysis input whose two groups are both non-empty
FilledPopulations(groups) ==
    {ct \in CellTypeSet : Len(groups[ct].yes) > 0 /\ Len(groups[ct].no) > 0}

Reported(rows) == {rows[k].cell_type : k \in 1..Len(rows)}

\* C12: whatever happens while one population is tested, every population with two
\* non-empty groups is tested and appears in the corrected results
C12_ErrorsStayLocal ==
    last_call.op \in {"analyze_frequencies_ttest", "analyze_frequencies_mw"}
    => FilledPopulations(data_by_population) \subseteq Reported(results)

\* the populations whose two groups are non-empty and hold one and the same value
ConstantPopulations(groups) ==
    {ct \in FilledPopulations(groups) :
        \A v \in {groups[ct].yes[k] : k \in 1..Len(groups[ct].yes)}
                    \cup {groups[ct].no[k] : k \in 1..Len(groups[ct].no)} :
            v = groups[ct].yes[1]}

\* C13: a population whose two groups hold identical constant values gets no
\* p-value, rank, threshold or flag from the Welch test
C13_IndeterminateTest ==
    /\ (last_call.op = "analyze_frequencies_ttest" /\ error = "none")
       => ConstantPopulations(data_by_population) \cap Reported(results) = {}
    /\ DashboardShown
       => ConstantPopulations(dashboard.data_by_population)
             \cap Reported(dashboard.results_df) = {}

\* the mean is the sum of the values divided by their number, 0 for no value
IsArithmeticMean(mean, xs) ==
    IF Len(xs) = 0 THEN mean.num = 0 /\ mean.den # 0
    ELSE mean.den # 0 /\ mean.num * Len(xs) = mean.den * SumSeq(xs)

Numeric(xs) == \A k \in 1..Len(xs) : xs[k] # NULL

MeansOfGroups(groups, rows) ==
    \A k \in 1..Len(rows) :
        LET g == groups[rows[k].cell_type]
        IN /\ Numeric(g.yes) => IsArithmeticMean(rows[k].yes_mean, g.yes)
           /\ Numeric(g.no) => IsArithmeticMean(rows[k].no_mean, g.no)

\* C16: the mean reported for a group is the sum of its percentages divided by
\* their number, and 0 for an empty group; the groups [10.0, 12.0, 11.0] and
\* [20.0, 22.0, 21.0] are reported with the means 11.0 and 21.0
C16_ArithmeticMeans ==
    /\ Analysed => MeansOfGroups(data_by_population, results)
    /\ DashboardShown => MeansOfGroups(dashboard.data_by_population, dashboard.results_df)
    /\ Analysed
       => \A k \in 1..Len(results) :
             (/\ data_by_population[results[k].cell_type].yes = <<100000, 120000, 110000>>
              /\ data_by_population[results[k].cell_type].no = <<200000, 220000, 210000>>)
             => /\ results[k].yes_mean = [num |-> 110000, den |-> 1]
                /\ results[k].no_mean = [num |-> 210000, den |-> 1]

\* C16 witness: an analysis has reported the means 11.0 and 21.0 for one
\* population, the mean 0 for an empty group and the mean 5.5 for another group
C16_Witness ==
    /\ Analysed
    /\ \E k \in 1..Len(results) :
          results[k].yes_mean = [num |-> 110000, den |-> 1]
             /\ results[k].no_mean = [num |-> 210000, den |-> 1]
    /\ \E k \in 1..Len(results) :
          /\ data_by_population[results[k].cell_type].yes = <<>>
          /\ results[k].yes_mean.num = 0
          /\ results[k].no_mean = [num |-> 55000, den |-> 1]

\* C17: the list of significant populations holds the names of the rows flagged
\* significant, in the order of the ranked rows, and of no other row
C17_SignificantList ==
    DashboardShown =>
        LET rows == dashboard.results_df
            list == dashboard.significant_cells
            flagged == {k \in 1..Len(rows) : rows[k].is_significant}
            Position(k) == Cardinality({j \in flagged : j <= k})
        IN /\ Len(list) = Cardinality(flagged)
           /\ \A k \in flagged :
                 /\ list[Position(k)] = rows[k].title
                 /\ rows[k].title = <<"B Cell", "Cd8 T Cell", "Cd4 T Cell", "Nk Cell",
                                      "Monocyte">>[CHOOSE i \in 1..5 :
                                          ClaimPopulations[i] = rows[k].cell_type]

\* C17 witness: the dashboard shows two flagged rows and, between them, a row
\* that is not flagged although its p-value is below 0.05
C17_Witness ==
    /\ DashboardShown
    /\ Len(dashboard.significant_cells) = 2
    /\ \E i, j, k \in 1..Len(dashboard.results_df) :
          /\ i < j /\ j < k
          /\ dashboard.results_df[i].is_significant
          /\ ~dashboard.results_df[j].is_significant
          /\ dashboard.results_df[j].p_value # NaN
          /\ dashboard.results_df[j].p_value < 600
          /\ dashboard.results_df[k].is_significant

\* every flagged row lies at or before the step-up rank of the rows
FlaggedWithinStepUp(rows) ==
    \A k \in 1..Len(rows) : rows[k].is_significant => k <= StepUpRank(rows)

\* C21: every population flagged significant has a rank that is at most r*, the
\* largest rank whose p-value is at most the threshold of that rank, so that the
\* step-up rule on the same thresholds flags it too
C21_FlaggedWithinStepUp ==
    /\ Analysed => FlaggedWithinStepUp(results)
    /\ DashboardShown => FlaggedWithinStepUp(dashboard.results_df)

\* C21 witness: an analysis has flagged a row and has left unflagged a row of
\* smaller rank, both at or before the step-up rank
C21_Witness ==
    /\ Analysed
    /\ \E j, k \in 1..Len(results) :
          /\ j < k
          /\ ~results[j].is_significant
          /\ results[j].p_value # NaN
          /\ results[k].is_significant
          /\ k <= StepUpRank(results)

\* the two tables list the same populations in the same order, each with the same
\* p-value, threshold and flag
SameCorrection(dash_rows, ttest_rows) ==
    /\ Len(dash_rows) = Len(ttest_rows)
    /\ \A k \in 1..Len(dash_rows) :
          /\ dash_rows[k].cell_type = ttest_rows[k].cell_type
          /\ dash_rows[k].p_value = ttest_rows[k].p_value
          /\ dash_rows[k].rank = ttest_rows[k].rank
          /\ dash_rows[k].threshold = ttest_rows[k].threshold
          /\ dash_rows[k].is_significant = ttest_rows[k].is_significant

AllFilled(groups) == FilledPopulations(groups) = CellTypeSet

\* C22: on grouped percentages in which each of the five populations has two
\* non-empty groups, the table of the dashboard and the one of
\* analyze_frequencies_ttest list the populations in the same order, with the same
\* threshold at every rank and the same flag for every population
C22_DashboardAsTtest ==
    /\ (DashboardShown /\ AllFilled(dashboard.data_by_population))
       => /\ TtestOutcome(dashboard.data_by_population).error = "none"
          /\ SameCorrection(dashboard.results_df,
                            TtestOutcome(dashboard.data_by_population).results)
    /\ (last_call.op = "analyze_frequencies_ttest" /\ error = "none"
           /\ AllFilled(data_by_population))
       => SameCorrection(DashStatistics(data_by_population, {}).results_df, results)

\* C22 witness: the dashboard has ranked five populations, one of them without a
\* p-value, two flagged ones with one p-value and an unflagged one whose p-value is
\* below 0.05
C22_Witness ==
    /\ DashboardShown
    /\ AllFilled(dashboard.data_by_population)
    /\ Len(dashboard.results_df) = 5
    /\ \E i, j, k, l \in 1..5 :
          /\ dashboard.results_df[i].p_value = NaN
          /\ j # k
          /\ dashboard.results_df[j].p_value = dashboard.results_df[k].p_value
          /\ dashboard.results_df[j].is_significant
          /\ ~dashboard.results_df[l].is_significant
          /\ dashboard.results_df[l].p_value # NaN
          /\ dashboard.results_df[l].p_value < Double(300)

-----------------------------------------------------------------------------
\* Properties of the loading step

LoadRan == last_call.op = "load_csv_to_sqlite" /\ error = "none"

\* the value of a stored row in the i-th column of the schema of CREATE TABLE
SchemaColumn(row, i) ==
    CASE i = 1 -> row.project
      [] i = 2 -> row.subject
      [] i = 3 -> row.condition
      [] i = 4 -> row.age
      [] i = 5 -> row.sex
      [] i = 6 -> row.treatment
      [] i = 7 -> row.response
      [] i = 8 -> row.sample
      [] i = 9 -> row.sample_type
      [] i = 10 -> row.time_from_treatment_start
      [] OTHER -> row.counts[i - 10]

\* the table holds, in file order, one row per data line of the file, with the
\* i-th field of the line in the i-th column
HoldsDataLines(table, file) ==
    /\ table.exists
    /\ Len(table.rows) = Len(file) - 1
    /\ \A k \in 1..Len(table.rows), i \in 1..15 :
          SchemaColumn(table.rows[k], i) = file[k + 1][i]

\* C18: after a load of a header line and N data lines of 15 fields the table
\* holds N rows, none of them the header line, and the i-th field of each data
\* line is in the i-th column of the schema
C18_RowsAsInFile ==
    LoadRan
    => /\ HoldsDataLines(sample_data, csv_file)
       /\ \A k \in 1..Len(sample_data.rows) :
             \E i \in {1, 2, 3} : SchemaColumn(sample_data.rows[k], i) # csv_file[1][i]

\* C18 witness: a file of a header and two different data lines has been loaded
C18_Witness ==
    /\ LoadRan
    /\ Len(csv_file) = 3
    /\ Len(sample_data.rows) = 2
    /\ sample_data.rows[1] # sample_data.rows[2]

-----------------------------------------------------------------------------
\* Properties of the row filter

\* the ten metadata columns
MetadataColumns ==
    {"project", "subject", "condition", "age", "sex", "treatment", "response",
     "sample", "sample_type", "time_from_treatment_start"}

\* the positions of the rows of the table that a set of column = value pairs
\* selects: those that agree with every pair on a metadata column
Selected(filters) ==
    {k \in 1..Len(sample_data.rows) :
        \A f \in filters : f[1] \in MetadataColumns => sample_data.rows[k][f[1]] = f[2]}

-----------------------------------------------------------------------------
\* Properties of the callers

\* the reports a caller's only run can print when no other caller runs: its file
\* loaded, the overview of that table, the analysis under its filter
AloneReports(request) ==
    LET sd == LoadCsv(request.file)
        ov == Overview(sd).table
    IN {Report(plot) : plot \in PlotOutcomes(sd, ov, request.treatment,
                                              request.condition)}

\* C14: whatever the interleaving of two callers, the report of each is a report
\* it prints when it runs alone
C14_RequestsIndependent ==
    \A r \in RequestIds :
        requests[r].pc = "done" => requests[r].reports[1] \in AloneReports(requests[r])

C19_LoadOverwrites ==
    (last_call.op = "request_load" /\ error = "none")
    => HoldsDataLines(sample_data, requests[last_call.request].file)

\* C19 witness: a caller has loaded its file after the other caller had loaded
\* another file with a data row
C19_Witness ==
    /\ last_call.op = "request_load"
    /\ last_call.request = "r2"
    /\ requests["r1"].pc # "load"
    /\ requests["r1"].file # requests["r2"].file
    /\ Len(requests["r1"].file) > 1
    /\ Len(requests["r2"].file) > 1

\* C23: whenever an analysis query joins the two tables, the rows of the overview
\* table are the ones overview derives from the rows the sample table holds then
C23_OverviewCurrent ==
    (last_call.op = "request_analyse" /\ sample_data.exists /\ overview_table.exists)
    => overview_table.rows = OverviewRows(sample_data.rows)

-----------------------------------------------------------------------------
\* Properties of the sidebar

SidebarFiltered == last_call.op = "dashboard_filter" /\ error = "none"

\* the rows of the table that agree with the selections of the given columns
RowsWithin(columns_checked) ==
    LET Kept(row) ==
            \A column \in columns_checked : row[column] \in sidebar.selected[column]
    IN SelectSeq(sample_data.rows, Kept)

\* C24: with every option of every multiselect selected the filtered data is the
\* whole sample table, rows of empty response included; and the filtered data is
\* restricted by no multiselect whose selection is empty
C24_DefaultsSelectAll ==
    SidebarFiltered
    => /\ (\A column \in SidebarColumns :
              sidebar.selected[column] = Options(sample_data)[column])
          => sidebar.filtered_data = sample_data.rows
       /\ sidebar.filtered_data
             = RowsWithin({column \in SidebarColumns : sidebar.selected[column] # {}})

-----------------------------------------------------------------------------
\* Properties of the dashboard session

\* C25: over the runs of the script in one session load_csv_to_sqlite is called at
\* most once, by the first run, which sets data_loaded
C25_LoadOncePerSession ==
    /\ session_loads <= 1
    /\ session_loads = 1 => data_loaded

-----------------------------------------------------------------------------
\* Properties of a load that fails

\* C26: a load that fails while it inserts the rows leaves in the table the rows
\* that the table held before the call
C26_LoadAllOrNothing ==
    [][(last_call'.op = "request_load" /\ error' = "ProgrammingError")
          => sample_data'.rows = sample_data.rows]_vars

-----------------------------------------------------------------------------
\* Properties of the reported sample counts

\* the rows of the sample table that pass the filter of the call with a response
RowsOfResponse(call, response) ==
    {k \in MatchingRows(call) : sample_data.rows[k].response = response}

\* C27: the responder and non-responder counts that plot_cell_frequencies reports
\* are the numbers of sample rows that pass the PBMC / condition / treatment
\* filter with the response 'yes' and with the response 'no'
C27_CountsAreSampleRows ==
    (last_call.op = "plot_cell_frequencies" /\ error = "none")
    => /\ counts_reported.yes = Cardinality(RowsOfResponse(last_call, "yes"))
       /\ counts_reported.no = Cardinality(RowsOfResponse(last_call, "no"))

====
